---- MODULE Spec2Model ----
(***************************************************************************)
(* PyHanoi: the state-space search of pyhanoi/libhanoi.py (Graph, Node,    *)
(* NodePrototype, ModList), the list helpers of pyhanoi/libcommon.py and   *)
(* the driver of pyhanoi/__main__.py.                                      *)
(*                                                                         *)
(* Conventions.  A TowerSet is a sequence of towers, a tower a sequence of *)
(* ring sizes listed bottom to top.  Tower indices inside a Delta are the  *)
(* 0-based indices of the Python code; data[i + 1] is Python's data[i].    *)
(* List positions returned by get_matching_index and consumed by pop_list  *)
(* are 1-based here (Python position + 1).  A Node object is identified by *)
(* its position in the arena `nodes` (creation order).                     *)
(***************************************************************************)
EXTENDS Integers, Sequences, FiniteSets, TLC

VARIABLES
    phase,          \* "new" | "built" | "round" | "done" | "error"
    start,          \* the caller's tower list handed to Graph(start, rings)
    rings,          \* Graph.rings
    nodes,          \* arena of every Node ever constructed
    current_nodes,  \* Graph.current_nodes (sequence of node ids)
    next_nodes,     \* Graph.next_nodes    (sequence of node ids)
    pinned,         \* Graph.pinned        (sequence of TowerSets)
    found_nodes,    \* Graph.found_nodes   (sequence of node ids)
    targets,        \* the tower lists the caller has appended to pinned
    idx             \* position of the for loop of _process_current (1-based)

vars == <<phase, start, rings, nodes, current_nodes, next_nodes, pinned,
          found_nodes, targets, idx>>

(***************************************************************************)
(* Bounds of the model.                                                    *)
(***************************************************************************)
MaxTowers == 3
MaxRings == 3
MaxPinned == 2

(***************************************************************************)
(* Generic sequence helpers.                                               *)
(***************************************************************************)
Range(s) == {s[i] : i \in DOMAIN s}

Reverse(s) == [i \in 1..Len(s) |-> s[Len(s) + 1 - i]]

RemoveAt(s, i) == [k \in 1..(Len(s) - 1) |-> IF k < i THEN s[k] ELSE s[k + 1]]

RECURSIVE SumLen(_)
SumLen(ts) == IF ts = <<>> THEN 0 ELSE Len(Head(ts)) + SumLen(Tail(ts))

(***************************************************************************)
(* libcommon.py                                                            *)
(***************************************************************************)

\* list.pop(i) applied to every index of index_list, which pop_list has
\* sorted and reversed (descending).  A pop beyond the end of the list is
\* Python's IndexError: err is set and the list left as it was at the raise.
RECURSIVE PopEach(_, _)
PopEach(index_list, item_list) ==
    IF index_list = <<>> THEN [err |-> FALSE, list |-> item_list]
    ELSE IF Head(index_list) > Len(item_list)
         THEN [err |-> TRUE, list |-> item_list]
         ELSE PopEach(Tail(index_list), RemoveAt(item_list, Head(index_list)))

pop_list(index_list, item_list) ==
    PopEach(Reverse(SortSeq(index_list, LAMBDA a, b : a < b)), item_list)

\* The pairs <<i, j>> with list_1[i] = list_2[j], in the order of the nested
\* loops (i outer, j inner).
get_matching_index(list_1, list_2) ==
    LET n2 == Len(list_2)
        all == [k \in 1..(Len(list_1) * n2) |->
                    <<((k - 1) \div n2) + 1, ((k - 1) % n2) + 1>>]
    IN  SelectSeq(all, LAMBDA p : list_1[p[1]] = list_2[p[2]])

(***************************************************************************)
(* __main__.py                                                             *)
(***************************************************************************)

\* make_node(towers, rings, full_tower): every ring rings..1 on full_tower.
make_node(towers, nrings, full_tower) ==
    [t \in 1..towers |->
        IF t = full_tower + 1 THEN [k \in 1..nrings |-> nrings + 1 - k]
        ELSE <<>>]

(***************************************************************************)
(* libhanoi.py: NodePrototype                                              *)
(***************************************************************************)

\* check_validity: every tower equals its sorted, reversed copy.
check_validity(data) ==
    \A t \in DOMAIN data :
        Reverse(SortSeq(data[t], LAMBDA a, b : a < b)) = data[t]

\* _is_patch_valid with the size comparison turned around.
_is_patch_valid_smaller(data, delta) ==
    LET init == delta[1] + 1
        final == delta[2] + 1
    IN  /\ Len(data[init]) > 0
        /\ \/ Len(data[final]) = 0
           \/ data[final][Len(data[final])] < data[init][Len(data[init])]

_is_patch_valid(data, delta) ==
    LET init == delta[1] + 1
        final == delta[2] + 1
    IN  /\ Len(data[init]) > 0
        /\ \/ Len(data[final]) = 0
           \/ data[final][Len(data[final])] > data[init][Len(data[init])]

\* patch that appends the ring to final without popping it from init.
patch_no_pop(data, delta) ==
    LET init == delta[1] + 1
        final == delta[2] + 1
    IN  [t \in DOMAIN data |->
            IF t = final THEN Append(data[t], data[init][Len(data[init])])
            ELSE data[t]]

\* The effect of patch on self.data when _is_patch_valid holds:
\* self.data[final].append(self.data[init].pop()).
patch(data, delta) ==
    LET init == delta[1] + 1
        final == delta[2] + 1
        ring == data[init][Len(data[init])]
    IN  [t \in DOMAIN data |->
            IF t = init THEN SubSeq(data[t], 1, Len(data[t]) - 1)
            ELSE IF t = final THEN Append(data[t], ring)
            ELSE data[t]]

(***************************************************************************)
(* libhanoi.py: ModList                                                    *)
(***************************************************************************)

\* itertools.combinations(range(t), 2) in place of permutations: only the
\* pairs (i, j) with i < j.
combinations2(t) ==
    LET all == [k \in 1..(t * t) |-> <<(k - 1) \div t, (k - 1) % t>>]
    IN  SelectSeq(all, LAMBDA p : p[1] < p[2])

\* itertools.permutations(range(t), 2): the ordered pairs (i, j), i # j, in
\* lexicographic order.
permutations2(t) ==
    [k \in 1..(t * (t - 1)) |->
        LET i == (k - 1) \div (t - 1)
            r == (k - 1) % (t - 1)
        IN  <<i, IF r < i THEN r ELSE r + 1>>]

\* ModList.generate: for every pair, NodePrototype(node.data) followed by
\* patch; a pair for which either raises InvalidRingOrderError is skipped.
\* An entry is the ConnectionPrototype <<tower_set, delta>>.
generate(data) ==
    LET cand == [k \in DOMAIN permutations2(Len(data)) |->
                    LET d == permutations2(Len(data))[k]
                    IN  IF check_validity(data) /\ _is_patch_valid(data, d)
                        THEN <<patch(data, d), d>>
                        ELSE <<>>]
    IN  SelectSeq(cand, LAMBDA c : c # <<>>)

ModTowerSets(mods) == [k \in DOMAIN mods |-> mods[k][1]]

\* filter_out that pops nothing.
filter_out_nothing(mods, tower_sets) == [err |-> FALSE, list |-> mods]

\* ModList.filter_out: pops every entry whose tower set is in tower_sets.
filter_out(mods, tower_sets) ==
    LET m == get_matching_index(ModTowerSets(mods), tower_sets)
        rml == [k \in DOMAIN m |-> m[k][1]]
    IN  pop_list(rml, mods)

(***************************************************************************)
(* libhanoi.py: Node                                                       *)
(***************************************************************************)

\* NodeStage
CURRENT == "CURRENT"
NEXT == "NEXT"
PROTOTYPE == "PROTOTYPE"

\* Node.__init__ after a successful NodePrototype.__init__: the deep copy of
\* data, no connections, no history.  (Node.mods only carries the candidate
\* list of the propagate call in progress; it is the `mods` value threaded
\* through propagate below.)
NewNode(data) == [data |-> data, connections |-> <<>>, history |-> <<>>]

\* Node.add_history(connection) on self, with connection = (node, delta).
\* The loop variable of `for history in node.history: node, log = history`
\* rebinds `node`, so the entry appended after the loop carries the origin of
\* the last entry of node.history, and node itself only when that is empty.
add_history(self_history, node_history, node, delta) ==
    LET extended == [k \in DOMAIN node_history |->
                        <<node_history[k][1], Append(node_history[k][2], delta)>>]
        last == IF node_history = <<>> THEN node
                ELSE node_history[Len(node_history)][1]
    IN  (self_history \o extended) \o << <<last, <<delta>>>> >>

\* connect that adds the history to the other end of the edge: to node, from
\* self.
connect_reverse_history(g, self, node, delta, stage) ==
    LET n1 == [g.nodes EXCEPT ![self].connections = Append(@, node)]
        n2 == [n1 EXCEPT ![node].connections = Append(@, self)]
        n3 == IF stage # CURRENT
              THEN [n2 EXCEPT ![node].history =
                        add_history(@, n2[self].history, self, delta)]
              ELSE n2
    IN  [nodes |-> n3,
         next_nodes |-> IF stage = PROTOTYPE THEN Append(g.next_nodes, self)
                        ELSE g.next_nodes]

\* connect that calls add_history for every stage, CURRENT included.
connect_always_history(g, self, node, delta, stage) ==
    LET n1 == [g.nodes EXCEPT ![self].connections = Append(@, node)]
        n2 == [n1 EXCEPT ![node].connections = Append(@, self)]
        n3 == [n2 EXCEPT ![self].history =
                    add_history(@, n2[node].history, node, delta)]
    IN  [nodes |-> n3,
         next_nodes |-> IF stage = PROTOTYPE THEN Append(g.next_nodes, self)
                        ELSE g.next_nodes]

\* Node.connect(connection, stage) on self, with connection = (node, delta).
\* g is the part of the heap it touches: [nodes, next_nodes].
connect(g, self, node, delta, stage) ==
    LET n1 == [g.nodes EXCEPT ![self].connections = Append(@, node)]
        n2 == [n1 EXCEPT ![node].connections = Append(@, self)]
        n3 == IF stage # CURRENT
              THEN [n2 EXCEPT ![self].history =
                        add_history(@, n2[node].history, node, delta)]
              ELSE n2
    IN  [nodes |-> n3,
         next_nodes |-> IF stage = PROTOTYPE THEN Append(g.next_nodes, self)
                        ELSE g.next_nodes]

\* The loop of connect_list over the matches (i, j):
\* nodes[j].connect((self, delta), stage).
RECURSIVE ConnectMatches(_, _, _, _, _, _)
ConnectMatches(g, self, ids, mods, matches, stage) ==
    IF matches = <<>> THEN g
    ELSE LET i == Head(matches)[1]
             j == Head(matches)[2]
         IN  ConnectMatches(connect(g, ids[j], self, mods[i][2], stage),
                            self, ids, mods, Tail(matches), stage)

\* connect_list(nodes, stage) of propagate.  `NodeStage == NodeStage.PROTOTYPE`
\* compares the enum class with one of its members and is False for every
\* call, so the else branch is the one that runs for all three stages.
\* Result: the heap, the candidates left in self.mods.data, and whether
\* pop_list raised.
connect_list(g, self, ids, mods, stage) ==
    LET tsl == [k \in DOMAIN ids |-> g.nodes[ids[k]].data]
        m == get_matching_index(ModTowerSets(mods), tsl)
        rml == [k \in DOMAIN m |-> m[k][1]]
        popped == pop_list(rml, mods)
    IN  [g |-> ConnectMatches(g, self, ids, mods, m, stage),
         mods |-> popped.list,
         err |-> popped.err]

\* Node._generate: ModList.generate, then filter_out of the tower sets of
\* self.connections.
_generate(ns, self) ==
    filter_out(generate(ns[self].data),
               [k \in DOMAIN ns[self].connections |->
                    ns[ns[self].connections[k]].data])

\* Node.propagate on the node `self`.  ModList defines neither __bool__ nor
\* __len__, so `not self.mods` is False and neither early return is taken.
\* Result: [nodes, next_nodes, err]; err when pop_list raised IndexError or a
\* Node(ts, graph) of the last call raised InvalidRingOrderError.
propagate(ns, cur, nxt, self) ==
    LET g0 == [nodes |-> ns, next_nodes |-> nxt]
        gen == _generate(ns, self)
        c1 == connect_list(g0, self, cur, gen.list, CURRENT)
        c2 == connect_list(c1.g, self, c1.g.next_nodes, c1.mods, NEXT)
        fresh == [k \in DOMAIN c2.mods |-> NewNode(c2.mods[k][1])]
        freshIds == [k \in DOMAIN c2.mods |-> Len(ns) + k]
        g2 == [nodes |-> c2.g.nodes \o fresh, next_nodes |-> c2.g.next_nodes]
        c3 == connect_list(g2, self, freshIds, c2.mods, PROTOTYPE)
    IN  IF gen.err THEN [nodes |-> ns, next_nodes |-> nxt, err |-> TRUE]
        ELSE IF c1.err
        THEN [nodes |-> c1.g.nodes, next_nodes |-> c1.g.next_nodes, err |-> TRUE]
        ELSE IF c2.err \/ \E k \in DOMAIN c2.mods : ~check_validity(c2.mods[k][1])
        THEN [nodes |-> c2.g.nodes, next_nodes |-> c2.g.next_nodes, err |-> TRUE]
        ELSE [nodes |-> c3.g.nodes, next_nodes |-> c3.g.next_nodes, err |-> c3.err]

(***************************************************************************)
(* libhanoi.py: Graph                                                      *)
(***************************************************************************)

\* Graph._check_pinned: `for index, term in enumerate(self.pinned)` with
\* self.pinned.pop(index) inside the loop.  The list iterator keeps its
\* position, so the entry that slides into a popped position is not visited.
RECURSIVE CheckPinnedFrom(_, _, _)
CheckPinnedFrom(pin, data, index) ==
    IF index > Len(pin) THEN pin
    ELSE IF pin[index] = data
         THEN CheckPinnedFrom(RemoveAt(pin, index), data, index + 1)
         ELSE CheckPinnedFrom(pin, data, index + 1)

_check_pinned(pin, data) == CheckPinnedFrom(pin, data, 1)

\* process_cond without the frontier test.
process_cond_pinned_only(cur, pin) == pin # <<>>

\* process_cond with the frontier test off by one.
process_cond_short(cur, pin) == Len(cur) > 1 /\ pin # <<>>

\* The loop condition of Graph.process.
process_cond(cur, pin) == cur # <<>> /\ pin # <<>>

(***************************************************************************)
(* The caller's inputs.                                                    *)
(***************************************************************************)

\* The cut of the flat ring list f into towers: tower k holds the rings
\* after position c[k - 1] up to position c[k].
Split(f, c, t) ==
    [k \in 1..t |->
        SubSeq(f, (IF k = 1 THEN 0 ELSE c[k - 1]) + 1,
                  IF k = t THEN Len(f) ELSE c[k])]

Cuts(t, n) ==
    {c \in [1..(t - 1) -> 0..n] : \A k \in 1..(t - 2) : c[k] <= c[k + 1]}

\* Every tower list over 1..MaxTowers towers holding n <= MaxRings rings of
\* sizes 1..n in any arrangement: well stacked or not, sizes repeated or not.
Arrangements ==
    UNION {UNION {{Split(f, c, t) : f \in [1..n -> 1..n], c \in Cuts(t, n)}
                    : n \in 1..MaxRings}
            : t \in 1..MaxTowers}

\* The tower list s with one ring more: a second ring of the size of the
\* bottom ring of tower k, under it.
WithEqualPair(s, k) == [s EXCEPT ![k] = <<s[k][1]>> \o @]

\* The tower lists a caller hands to Graph: the arrangements, and each of
\* them with an equal pair at the bottom of one of its towers.
StartSet ==
    Arrangements \cup
    UNION {{WithEqualPair(s, k) : k \in {j \in DOMAIN s : s[j] # <<>>}}
            : s \in Arrangements}

\* A malformed target: the rings 1..n and one more, stacked ascending.
BadTarget(towers, nrings) ==
    [t \in 1..towers |-> IF t = 1 THEN [k \in 1..(nrings + 1) |-> k] ELSE <<>>]

\* The targets a caller pins: the start itself, the full stack on the last
\* tower (as __main__ does) and a malformed tower list.
PinSet ==
    {start, make_node(Len(start), rings, Len(start) - 1),
     BadTarget(Len(start), rings)}

(***************************************************************************)
(* State machine.                                                          *)
(***************************************************************************)
Init ==
    /\ phase = "new"
    /\ start \in StartSet
    /\ rings = 0
    /\ nodes = <<>>
    /\ current_nodes = <<>>
    /\ next_nodes = <<>>
    /\ pinned = <<>>
    /\ found_nodes = <<>>
    /\ targets = <<>>
    /\ idx = 1

\* graph = Graph(start_tower, rings): Node(start, self) validates the tower
\* list and raises InvalidRingOrderError, or becomes the only current node.
GraphInit ==
    /\ phase = "new"
    /\ IF check_validity(start)
       THEN /\ phase' = "built"
            /\ rings' = SumLen(start)
            /\ nodes' = <<NewNode(start)>>
            /\ current_nodes' = <<1>>
       ELSE /\ phase' = "error"
            /\ UNCHANGED <<rings, nodes, current_nodes>>
    /\ UNCHANGED <<start, next_nodes, pinned, found_nodes, targets, idx>>

\* graph.pinned.append(target), before process() is called.
AddPinned ==
    /\ phase = "built"
    /\ Len(pinned) < MaxPinned
    /\ \E ts \in PinSet :
            /\ pinned' = Append(pinned, ts)
            /\ targets' = Append(targets, ts)
    /\ UNCHANGED <<phase, start, rings, nodes, current_nodes, next_nodes,
                   found_nodes, idx>>

\* graph.process() is called: the first evaluation of the loop condition.
Process ==
    /\ phase = "built"
    /\ phase' = IF process_cond(current_nodes, pinned) THEN "round" ELSE "done"
    /\ UNCHANGED <<start, rings, nodes, current_nodes, next_nodes, pinned,
                   found_nodes, targets, idx>>

\* ProcessNode when NodePrototype.__init__ keeps the caller's list instead of
\* a deep copy: the patch of every candidate that generate accepts is applied
\* to the data of the propagating Node itself.
ProcessNode_no_copy ==
    /\ phase = "round"
    /\ idx <= Len(current_nodes)
    /\ LET node == current_nodes[idx]
           p == propagate(nodes, current_nodes, next_nodes, node)
           g == generate(nodes[node].data)
       IN  /\ nodes' = IF g = <<>> THEN p.nodes
                       ELSE [p.nodes EXCEPT ![node].data = g[1][1]]
           /\ next_nodes' = p.next_nodes
           /\ IF p.err
              THEN /\ phase' = "error"
                   /\ UNCHANGED <<pinned, idx>>
              ELSE /\ phase' = "round"
                   /\ pinned' = _check_pinned(pinned, p.nodes[node].data)
                   /\ idx' = idx + 1
    /\ UNCHANGED <<start, rings, current_nodes, found_nodes, targets>>

\* One iteration of the for loop of _process_current:
\* node.propagate(); self._check_pinned(node).
ProcessNode ==
    /\ phase = "round"
    /\ idx <= Len(current_nodes)
    /\ LET node == current_nodes[idx]
           p == propagate(nodes, current_nodes, next_nodes, node)
       IN  /\ nodes' = p.nodes
           /\ next_nodes' = p.next_nodes
           /\ IF p.err
              THEN /\ phase' = "error"
                   /\ UNCHANGED <<pinned, idx>>
              ELSE /\ phase' = "round"
                   /\ pinned' = _check_pinned(pinned, p.nodes[node].data)
                   /\ idx' = idx + 1
    /\ UNCHANGED <<start, rings, current_nodes, found_nodes, targets>>

\* EndRound that does not promote the next frontier: the same current
\* frontier is processed again.
EndRound_keep ==
    /\ phase = "round"
    /\ idx > Len(current_nodes)
    /\ idx' = 1
    /\ phase' = IF process_cond(current_nodes, pinned) THEN "round" ELSE "done"
    /\ UNCHANGED <<start, rings, nodes, current_nodes, next_nodes, pinned,
                   found_nodes, targets>>

\* The end of _process_current (the frontiers are swapped) and the next
\* evaluation of the loop condition of process.
EndRound ==
    /\ phase = "round"
    /\ idx > Len(current_nodes)
    /\ current_nodes' = next_nodes
    /\ next_nodes' = <<>>
    /\ idx' = 1
    /\ phase' = IF process_cond(next_nodes, pinned) THEN "round" ELSE "done"
    /\ UNCHANGED <<start, rings, nodes, pinned, found_nodes, targets>>

Next == GraphInit \/ AddPinned \/ Process \/ ProcessNode \/ EndRound

Spec == Init /\ [][Next]_vars

\* The program is running: the caller still has a call to make, or process
\* is inside its loop.  From each such state Next has a step that changes
\* vars (GraphInit and Process change phase, ProcessNode changes idx or
\* phase, EndRound changes idx or phase), and from no other state it has.
Running == phase \in {"new", "built", "round"}

\* The program is single-threaded and nothing suspends it: while it is
\* running it keeps taking steps.  This is weak fairness of Next, WF_vars(Next),
\* written out with Running for ENABLED <<Next>>_vars.
Fairness == []<>(~Running) \/ []<><<Next>>_vars

FairSpec == Spec /\ Fairness

(***************************************************************************)
(* Vocabulary of the properties.                                           *)
(***************************************************************************)
NodeIds == 1..Len(nodes)

\* The nodes whose propagate (and _check_pinned) has not run yet.
Unprocessed ==
    {current_nodes[k] : k \in idx..Len(current_nodes)} \cup Range(next_nodes)

Propagated == NodeIds \ Unprocessed

Deltas(t) == {d \in (0..(t - 1)) \X (0..(t - 1)) : d[1] # d[2]}

\* The rings of all towers, as one list.
RECURSIVE Flatten(_)
Flatten(ts) == IF ts = <<>> THEN <<>> ELSE Head(ts) \o Flatten(Tail(ts))

\* Invariant I1 of the data model: every tower strictly descending.
StrictlyDescending(data) ==
    \A t \in DOMAIN data :
        \A k \in 1..(Len(data[t]) - 1) : data[t][k] > data[t][k + 1]

\* No two rings of the tower list share a size.
DistinctRings(data) ==
    \A p, q \in DOMAIN Flatten(data) :
        p # q => Flatten(data)[p] # Flatten(data)[q]

RingCount(data, r) ==
    Cardinality({p \in DOMAIN Flatten(data) : Flatten(data)[p] = r})

SameRings(a, b) ==
    \A r \in Range(Flatten(a)) \cup Range(Flatten(b)) :
        RingCount(a, r) = RingCount(b, r)

\* The configurations one legal move away from data.
Successors(data) ==
    {patch(data, d) : d \in {e \in Deltas(Len(data)) : _is_patch_valid(data, e)}}

\* The configurations reachable from data by legal moves.
RECURSIVE ReachFrom(_, _)
ReachFrom(seen, frontier) ==
    IF frontier = {} THEN seen
    ELSE LET new == UNION {Successors(c) : c \in frontier} \ seen
         IN  ReachFrom(seen \cup new, new)

Reachable(data) == ReachFrom({data}, {data})

Held == {nodes[i].data : i \in NodeIds}

\* The configuration reached by applying log to data move by move; <<>> (no
\* tower list) as soon as a move is not legal.
RECURSIVE Replay(_, _)
Replay(data, log) ==
    IF log = <<>> THEN data
    ELSE IF _is_patch_valid(data, Head(log))
         THEN Replay(patch(data, Head(log)), Tail(log))
         ELSE <<>>

ScenarioA ==
    /\ start = make_node(3, 3, 0)
    /\ targets = << make_node(3, 3, 2) >>

(***************************************************************************)
(* Properties.                                                             *)
(***************************************************************************)

\* C1: in scenario A (3 towers, 3 rings, start = full stack on tower 0, one
\* pinned target = full stack on tower 2), once process has returned,
\* found_nodes holds exactly one Node, its configuration is the target and
\* its history has an entry from the start node with 7 moves.
C1_ScenarioAFound ==
    (phase = "done" /\ ScenarioA) =>
        /\ Len(found_nodes) = 1
        /\ nodes[found_nodes[1]].data = make_node(3, 3, 2)
        /\ \E k \in DOMAIN nodes[found_nodes[1]].history :
                /\ nodes[found_nodes[1]].history[k][1] = 1
                /\ Len(nodes[found_nodes[1]].history[k][2]) = 7

\* C2 as stated: whenever process has returned, the current frontier is
\* empty and every configuration reachable from the start is held by a Node.
C2_NeverStopsEarly ==
    phase = "done" =>
        /\ current_nodes = <<>>
        /\ Reachable(start) \subseteq Held

\* C2 as amended: whenever process has returned, either pinned is empty, or
\* the current frontier is empty and every configuration reachable from the
\* start is held by a Node.
C2_StopsOnlyWhenPinnedEmptyOrExhausted ==
    phase = "done" =>
        \/ pinned = <<>>
        \/ /\ current_nodes = <<>>
           /\ Reachable(start) \subseteq Held

\* process has returned from a search of several Nodes with a target left in
\* pinned: the frontier ran empty.
C2_Witness ==
    /\ phase = "done"
    /\ pinned # <<>>
    /\ current_nodes = <<>>
    /\ Len(nodes) > 3
    /\ Reachable(start) \subseteq Held

\* C3: every Node that has been propagated and checked and whose
\* configuration the caller pinned is in found_nodes.
C3_PinnedNodeIsFound ==
    \A n \in Propagated :
        nodes[n].data \in Range(targets) => n \in Range(found_nodes)

\* C4: every move sequence of every history entry of every Node is legal
\* move by move from its origin's configuration and ends in the Node's
\* configuration.
C4_HistoryCorrect ==
    \A m \in NodeIds :
        \A k \in DOMAIN nodes[m].history :
            Replay(nodes[nodes[m].history[k][1]].data, nodes[m].history[k][2])
                = nodes[m].data

\* C5: no two distinct Nodes hold equal configurations.
C5_DedupUnique ==
    \A i, j \in NodeIds : i # j => nodes[i].data # nodes[j].data

\* What holds of C5: in a search from a start whose towers are strictly
\* descending, no two distinct Nodes hold equal configurations.
DedupUniqueFromWellStacked == StrictlyDescending(start) => C5_DedupUnique

\* C6: in a search from a start whose towers are strictly descending, every
\* Node's towers are strictly descending and hold the same ring sizes, each
\* as many times, as the start.
C6_InvariantPreserved ==
    StrictlyDescending(start) =>
        \A n \in NodeIds :
            /\ StrictlyDescending(nodes[n].data)
            /\ SameRings(nodes[n].data, start)

\* A finished search from a well-stacked start with a Node reached over
\* several patches.
C6_Witness ==
    /\ StrictlyDescending(start)
    /\ phase = "done"
    /\ \E n \in NodeIds : n > 1 /\ Len(nodes[n].history) > 1

\* C7: for every configuration C with pairwise distinct ring sizes and
\* strictly descending towers (the caller's tower list and every Node's) and
\* every move d that _is_patch_valid accepts on C: patch(C, d) is valid, the
\* inverse move is accepted on it, and patching it back returns C.
C7_LegalRoundTrip ==
    \A C \in {start} \cup Held :
        (DistinctRings(C) /\ StrictlyDescending(C)) =>
            \A d \in Deltas(Len(C)) :
                _is_patch_valid(C, d) =>
                    /\ check_validity(patch(C, d))
                    /\ StrictlyDescending(patch(C, d))
                    /\ _is_patch_valid(patch(C, d), <<d[2], d[1]>>)
                    /\ patch(patch(C, d), <<d[2], d[1]>>) = C

\* A Node made by patch from a well-formed configuration, with a legal move
\* back.
C7_Witness ==
    \E n \in NodeIds :
        /\ n > 1
        /\ DistinctRings(nodes[n].data)
        /\ StrictlyDescending(nodes[n].data)
        /\ \E d \in Deltas(Len(start)) :
            /\ _is_patch_valid(nodes[n].data, d)
            /\ patch(nodes[n].data, d) = start

\* C8: once the Graph is built from a start whose towers are strictly
\* descending, process is eventually called and returns.
C8_Terminates ==
    (phase = "built" /\ StrictlyDescending(start)) ~> (phase = "done")

\* process has returned after at least three rounds of a search, from a
\* well-stacked start, that never emptied pinned.
C8_Witness ==
    /\ phase = "done"
    /\ StrictlyDescending(start)
    /\ pinned # <<>>
    /\ \E n \in NodeIds :
        \E k \in DOMAIN nodes[n].history : Len(nodes[n].history[k][2]) > 2

\* The connections of every propagated Node are exactly the Nodes of the
\* configurations one legal move away, each once, and never the Node itself.
ConnectionsExact ==
    \A n \in Propagated :
        /\ {nodes[c].data : c \in Range(nodes[n].connections)}
                = Successors(nodes[n].data)
        /\ Cardinality(Range(nodes[n].connections))
                = Len(nodes[n].connections)
        /\ Len(nodes[n].connections)
                = Cardinality(Successors(nodes[n].data))
        /\ n \notin Range(nodes[n].connections)

\* No Node has more than t * (t - 1) connections.
DegreeBound ==
    \A n \in NodeIds :
        Len(nodes[n].connections) <= Len(start) * (Len(start) - 1)

\* C9: the connections of a propagated Node are exactly the Nodes of the
\* configurations one legal move away, each once, and never the Node itself;
\* so no Node has more than t * (t - 1) connections.
C9_ConnectionsExact == ConnectionsExact /\ DegreeBound

\* What holds of C9: the same in a search from a start whose towers are
\* strictly descending.
ConnectionsExactFromWellStacked ==
    StrictlyDescending(start) => (ConnectionsExact /\ DegreeBound)

\* C10: constructing the Graph succeeds, and makes the seed Node, iff every
\* tower of the caller's list is strictly descending.
C10_ConstructIffStrict ==
    phase # "new" => ((nodes # <<>>) <=> StrictlyDescending(start))

\* C11: pinned never contains a tower list that violates the descending-stack
\* invariant (a malformed target is rejected when it is registered and pinned
\* is left as it was).
C11_PinnedAlwaysValid ==
    \A k \in DOMAIN pinned : StrictlyDescending(pinned[k])

\* C12 (scenario B): with exactly one tower and N > 0 rings the seed, with no
\* connection and no history, is the only Node that ever exists and the next
\* frontier stays empty; the only round process runs is the seed round, it
\* returns after it with an empty frontier, and found_nodes stays empty
\* unless the start itself was pinned.
C12_ScenarioB ==
    (Len(start) = 1 /\ phase \in {"built", "round", "done"}) =>
        /\ nodes = <<NewNode(start)>>
        /\ next_nodes = <<>>
        /\ phase = "round" => current_nodes = <<1>>
        /\ (phase = "done" /\ targets # <<>>) => current_nodes = <<>>
        /\ start \notin Range(targets) => found_nodes = <<>>

\* process has returned from the seed round of a one-tower search of several
\* rings whose pinned target was not the start.
C12_Witness ==
    /\ Len(start) = 1
    /\ Len(start[1]) > 1
    /\ phase = "done"
    /\ targets # <<>>
    /\ start \notin Range(targets)
    /\ current_nodes = <<>>
    /\ nodes = <<NewNode(start)>>

\* A step of the search in which a Node propagates: the for loop of
\* _process_current is at current_nodes[idx].
Propagating == phase = "round" /\ idx <= Len(current_nodes)

\* The history and the connections a Node had before a step; none for a Node
\* the step creates.
OldHistory(m) == IF m <= Len(nodes) THEN nodes[m].history ELSE <<>>

OldConnections(m) == IF m <= Len(nodes) THEN nodes[m].connections ELSE <<>>

\* The history of M after N connected to it via delta, as stated: the
\* entries of N's history extended by delta, then (N, [delta]).
HistoryStated(self_history, node_history, node, delta) ==
    (self_history \o [k \in DOMAIN node_history |->
                        <<node_history[k][1], Append(node_history[k][2], delta)>>])
        \o << <<node, <<delta>>>> >>

\* C13: whenever the propagation of Node N changes the history of a Node M,
\* for the move d that takes N's configuration to M's, M's history has gained
\* exactly (origin, moveSequence ++ [d]) for every entry of N's history and
\* then (N, [d]), with N itself as the origin.
C13_HistoryGain ==
    [][Propagating =>
        \A m \in 1..Len(nodes') :
            nodes'[m].history # OldHistory(m) =>
                \E d \in Deltas(Len(start)) :
                    /\ _is_patch_valid(nodes[current_nodes[idx]].data, d)
                    /\ patch(nodes[current_nodes[idx]].data, d) = nodes'[m].data
                    /\ nodes'[m].history =
                            HistoryStated(OldHistory(m),
                                          nodes[current_nodes[idx]].history,
                                          current_nodes[idx], d)]_vars

\* The number of history entries the propagation of N adds per edge it
\* discovers.
HistoryBlock == Len(nodes[current_nodes[idx]].history) + 1

\* The number of edges to N that the step adds to Node m.
EdgesGained(m) == Len(nodes'[m].connections) - Len(OldConnections(m))

\* C14 as stated: in every propagation of a Node N, every other Node gains
\* one block of history entries (one entry per entry of N's history and one
\* for N) for every edge to N it gains, whatever frontier it is in, and N's
\* own history is not changed.
C14_HistoryOncePerEdge ==
    [][Propagating =>
        /\ nodes'[current_nodes[idx]].history = nodes[current_nodes[idx]].history
        /\ \A m \in (1..Len(nodes')) \ {current_nodes[idx]} :
                Len(nodes'[m].history) =
                    Len(OldHistory(m)) + EdgesGained(m) * HistoryBlock]_vars

\* C14 as amended: the same for every Node outside the current frontier (a
\* new Node or a Node of the next frontier); a Node of the current frontier
\* gains the edge and no history; N's own history is not changed.
C14_HistoryOncePerEdgeOutsideCurrent ==
    [][Propagating =>
        /\ nodes'[current_nodes[idx]].history = nodes[current_nodes[idx]].history
        /\ \A m \in (1..Len(nodes')) \ {current_nodes[idx]} :
                Len(nodes'[m].history) =
                    Len(OldHistory(m)) +
                        (IF m \in Range(current_nodes) THEN 0
                         ELSE EdgesGained(m) * HistoryBlock)]_vars

\* Two Nodes of the current frontier are connected to each other and a Node
\* of the next frontier has been reached from two Nodes: edges of all three
\* kinds have been discovered.
C14_Witness ==
    /\ phase = "round"
    /\ \E a, b \in Range(current_nodes) :
            a # b /\ b \in Range(nodes[a].connections)
    /\ \E m \in Range(next_nodes) :
            /\ Len(nodes[m].connections) > 1
            /\ Len(nodes[m].history) > 2

\* C15 as stated: no two entries of a Node's history share an origin, and the
\* seed Node's history is empty.
C15_OneEntryPerOrigin ==
    \A m \in NodeIds :
        /\ \A j, k \in DOMAIN nodes[m].history :
                j # k => nodes[m].history[j][1] # nodes[m].history[k][1]
        /\ m = 1 => nodes[m].history = <<>>

\* C15 as amended: no two entries of a Node's history are equal (same origin
\* and same move sequence), and the seed Node's history is empty.
C15_OneEntryPerPath ==
    \A m \in NodeIds :
        /\ \A j, k \in DOMAIN nodes[m].history :
                j # k => nodes[m].history[j] # nodes[m].history[k]
        /\ m = 1 => nodes[m].history = <<>>

\* A Node other than the seed holds several history entries of one origin,
\* and the seed has connections.
C15_Witness ==
    /\ Len(nodes) > 1
    /\ nodes[1].connections # <<>>
    /\ \E m \in NodeIds \ {1} :
            \E j, k \in DOMAIN nodes[m].history :
                j # k /\ nodes[m].history[j][1] = nodes[m].history[k][1]

\* The number of times Node b occurs in the connections of Node a.
Multiplicity(a, b) ==
    Cardinality({k \in DOMAIN nodes[a].connections : nodes[a].connections[k] = b})

\* Every edge is recorded at both ends, as many times at one as at the other,
\* and leads, in each direction, to a configuration one legal move away.
EdgesUndirectedLegal ==
    \A a, b \in NodeIds :
        /\ Multiplicity(a, b) = Multiplicity(b, a)
        /\ Multiplicity(a, b) > 0 => nodes[b].data \in Successors(nodes[a].data)

\* C16: Node B is in A.connections iff A is in B.connections, with equal
\* multiplicity, and for every such pair B's configuration is one legal move
\* away from A's.
C16_EdgesUndirectedLegal == EdgesUndirectedLegal

\* What holds of C16: the same in a search from a start whose towers are
\* strictly descending.
EdgesUndirectedLegalFromWellStacked ==
    StrictlyDescending(start) => EdgesUndirectedLegal

\* s is t with some entries removed: the entries of s are entries of t, in
\* the order of t.
RECURSIVE IsSubSeq(_, _)
IsSubSeq(s, t) ==
    IF s = <<>> THEN TRUE
    ELSE IF t = <<>> THEN FALSE
    ELSE IF Head(s) = Head(t) THEN IsSubSeq(Tail(s), Tail(t))
    ELSE IsSubSeq(s, Tail(t))

\* C17: no step of the search (a call of process, the propagation and
\* pinned check of a Node, the end of a round) changes the configuration of
\* an existing Node or the caller's start tower list, and none changes
\* pinned otherwise than by removing whole entries.  (The steps of the search
\* are the steps in which the caller registers no target.)
C17_ConfigurationsFixed ==
    [][targets' = targets =>
        /\ \A m \in NodeIds : nodes'[m].data = nodes[m].data
        /\ Len(nodes') >= Len(nodes)
        /\ start' = start
        /\ IsSubSeq(pinned', pinned)]_vars

\* A search in which candidates were generated with patch, Nodes connected
\* and created, history propagated and a target removed from pinned.
C17_Witness ==
    /\ phase = "done"
    /\ Len(pinned) < Len(targets)
    /\ pinned # <<>>
    /\ Len(nodes) > 3
    /\ \E m \in NodeIds : Len(nodes[m].history) > 1

\* The configurations reachable from a set of configurations, layer by
\* layer: Layers(...)[k + 1] holds those at shortest legal-move distance k.
RECURSIVE LayersFrom(_, _, _)
LayersFrom(layers, seen, frontier) ==
    IF frontier = {} THEN layers
    ELSE LET new == UNION {Successors(c) : c \in frontier} \ seen
         IN  LayersFrom(Append(layers, frontier), seen \cup new, new)

Layers == LayersFrom(<<>>, {start}, {start})

\* The shortest legal-move distance from the start of a configuration of
\* layers[k + 1]: k.
Distance(layers, data) == (CHOOSE k \in DOMAIN layers : data \in layers[k]) - 1

\* The Nodes of neither frontier.
Settled == NodeIds \ (Range(current_nodes) \cup Range(next_nodes))

\* During a round: for k the distance of the first Node of the current
\* frontier, every Node of the current frontier is at distance k, every
\* Node of the next frontier at distance k + 1, every other Node at a
\* distance below k, and no Node is in both frontiers; every Node holding
\* a configuration one legal move away from a Node still to be propagated is
\* one of its connections or a Node of one of the two frontiers.
BreadthFirstLayers ==
    phase = "round" =>
        LET layers == Layers
            dist == [n \in NodeIds |-> Distance(layers, nodes[n].data)]
            k == dist[current_nodes[1]]
        IN  /\ \A n \in Range(current_nodes) : dist[n] = k
            /\ \A n \in Range(next_nodes) : dist[n] = k + 1
            /\ \A n \in Settled : dist[n] < k
            /\ Range(current_nodes) \cap Range(next_nodes) = {}
            /\ \A j \in idx..Len(current_nodes) :
                    LET self == current_nodes[j]
                        mods == Successors(nodes[self].data)
                    IN  \A m \in NodeIds :
                            nodes[m].data \in mods
                                => m \in Range(nodes[self].connections)
                                        \cup Range(current_nodes)
                                        \cup Range(next_nodes)

\* C18: breadth-first layering.  The seed round has k = 0 (its only Node
\* holds the start) and the end of a round makes the next frontier the
\* current one, so k is the number of the round.
C18_BreadthFirstLayers == BreadthFirstLayers

\* What holds of C18: the same in a search from a start whose towers are
\* strictly descending.
BreadthFirstLayersFromWellStacked ==
    StrictlyDescending(start) => BreadthFirstLayers

\* Every Node other than the seed holds a history entry whose origin is the
\* seed and whose moves are a legal path from the start to the Node's
\* configuration, as long as the configuration's shortest distance.
ShortestPathHeld ==
    LET layers == Layers
    IN  \A m \in NodeIds \ {1} :
            \E k \in DOMAIN nodes[m].history :
                /\ nodes[m].history[k][1] = 1
                /\ Replay(start, nodes[m].history[k][2]) = nodes[m].data
                /\ Len(nodes[m].history[k][2]) = Distance(layers, nodes[m].data)

\* C19: from its creation on, every Node other than the seed holds a
\* history entry whose origin is the seed and whose moves are a legal path
\* from the start to the Node's configuration of the length of its shortest
\* distance.
C19_ShortestPathHeld == ShortestPathHeld

\* What holds of C19: the same in a search from a start whose towers are
\* strictly descending.
ShortestPathHeldFromWellStacked == StrictlyDescending(start) => ShortestPathHeld

\* C20: the pinned check of a propagated Node leaves in pinned exactly the
\* entries that differ from the Node's configuration, in their order (no
\* entry equal to it is left, however many there were and wherever), and
\* no step of process makes pinned longer.
C20_PinnedBookkeeping ==
    [][/\ (Propagating /\ phase' = "round") =>
            pinned' = SelectSeq(pinned,
                        LAMBDA t : t # nodes[current_nodes[idx]].data)
       /\ targets' = targets => Len(pinned') <= Len(pinned)]_vars

====
